---- MODULE Spec2Model ----
(***************************************************************************)
(* A model of dynamo/dynamodb_table.py (class DynamodbTable) and of the    *)
(* commands of dynamo/cli.py: full-table copy, selective item copy,        *)
(* restore from a backup table, the item query and the query with filter,  *)
(* the truncator, the segmented scan, the batcher and the batch writer     *)
(* with exponential backoff.                                               *)
(*                                                                         *)
(* The DynamoDB service is the environment.  A table is a function from    *)
(* key ids to 0 (no item) or to a version tag: 1 for an item that comes    *)
(* from the source table, 2 for an item that was in the target table.      *)
(* Scans and queries return pages of nondeterministic size, possibly an    *)
(* empty page that still carries a continuation token; a batch write       *)
(* answers with a status and an unprocessed subset of what was submitted.  *)
(***************************************************************************)
EXTENDS Integers, Sequences, FiniteSets, TLC

\* ---------------------------------------------------------------- constants

\* dynamodb_table.py:9
BATCH_SIZE == 25

\* boto3's batch_writer flushes its buffer when it holds this many requests
\* (dynamodb_table.py:174 takes the default flush_amount).
FlushAmount == 25

\* initial value of backoff_time (dynamodb_table.py:281)
InitialBackoff == 3

\* ------------------------------------------------------------------- bounds

\* keys of the small tables are 1..MaxKey
MaxKey == 2

\* keys of the large tables are 1..BigKeys (enough for a second write batch)
BigKeys == 39

\* keys of the table that is written in chunks are 1..ChunkKeys (five write
\* batches, more than four times the one worker of the pool)
ChunkKeys == 101

\* at most this many successive responses with unprocessed items per batch
MaxRetries == 2

\* a submitted list this short may come back with any subset unprocessed
MaxFree == 2

\* the batcher is applied to item lists of length 0..MaxN
MaxN == 52

\* the batches of one pool whose termination is checked are the first MaxTasks
MaxTasks == 2

None == "None"

Min(a, b) == IF a < b THEN a ELSE b

Range(s) == {s[i] : i \in 1..Len(s)}

\* ------------------------------------------------------------ pure functions

\* the name check with only one direction of the substring test
CopyCompatibleOneWay(a, b) ==
    \E i \in 0..(Len(b) - Len(a)) : SubSeq(b, i + 1, i + Len(a)) = a

\* Python's `a in b` on strings (dynamodb_table.py:45, :69); names are
\* sequences of characters.
IsSubstring(a, b) ==
    \E i \in 0..(Len(b) - Len(a)) : SubSeq(b, i + 1, i + Len(a)) = a

\* The negation of the condition of dynamodb_table.py:45 and :69.
CopyCompatible(a, b) == IsSubstring(a, b) \/ IsSubstring(b, a)

\* range(0, len(items), BATCH_SIZE)
RECURSIVE SliceStarts(_, _)
SliceStarts(i, n) == IF i >= n THEN <<>> ELSE <<i>> \o SliceStarts(i + BATCH_SIZE, n)

\* a slice that runs one item into the next batch
SliceOverlapping(items, i) == SubSeq(items, i + 1, Min(i + BATCH_SIZE + 1, Len(items)))

\* items[i:i + BATCH_SIZE] for a 0-based i
Slice(items, i) == SubSeq(items, i + 1, Min(i + BATCH_SIZE, Len(items)))

\* a batcher that hands all the items over as one batch
BatcherWhole(items) == IF items = <<>> THEN <<>> ELSE <<items>>

\* [items[i:i + BATCH_SIZE] for i in range(0, len(items), BATCH_SIZE)]
Batcher(items) ==
    LET starts == SliceStarts(0, Len(items))
    IN  [j \in 1..Len(starts) |-> Slice(items, starts[j])]

RECURSIVE Flatten(_)
Flatten(bs) == IF bs = <<>> THEN <<>> ELSE Head(bs) \o Flatten(Tail(bs))

RECURSIVE SumLen(_)
SumLen(bs) == IF bs = <<>> THEN 0 ELSE Len(Head(bs)) + SumLen(Tail(bs))

\* ------------------------------------------------------------------- service

Envs == {"dev", "prd"}

TableNames == {<<"u">>, <<"u", "b">>, <<"o">>}

SourceNames == {<<"u">>, <<"u", "b">>}

\* the values os.cpu_count() takes
CpuCounts == {1, 4, 16}

\* identity of the table a handle addresses
Id(h) == <<h.env, h.table_name>>

\* attribute values of the item with key id k: of its partition key, of the
\* attribute "gpk" a secondary index may have as its partition key, and of its
\* sort key
PkValue(k) == IF k % 3 = 0 THEN "q" ELSE "p"

GpkValue(k) == IF k % 2 = 0 THEN "p" ELSE "r"

SkValue(k) == <<k % 2, k>>

\* the pk and the sk the selective copy is asked for
QueryPk == "p"

SkPrefix == <<1>>

\* begins_with
BeginsWith(v, prefix) ==
    Len(prefix) <= Len(v) /\ SubSeq(v, 1, Len(prefix)) = prefix

\* the service's partition of the keyspace over TotalSegments segments
SegmentOf(k, total) == k % total

EmptyTable(n) == [k \in 1..n |-> 0]

TableOf(keys, n, v) == [k \in 1..n |-> IF k \in keys THEN v ELSE 0]

ItemsIn(c) == {k \in DOMAIN c : c[k] # 0}

IsEmpty(c) == ItemsIn(c) = {}

\* the items <<key, version>> of content c for the keys in sequence ks
ItemsOf(c, ks) == [i \in 1..Len(ks) |-> <<ks[i], c[ks[i]]>>]

\* page sizes the service may choose when rem items are left to read: an empty
\* page, half of what is left, or all that is left
PageSizes(rem) == {0, (rem + 1) \div 2, rem}

RECURSIVE Pick(_, _, _)
Pick(s, I, i) ==
    IF i > Len(s) THEN <<>>
    ELSE (IF i \in I THEN <<s[i]>> ELSE <<>>) \o Pick(s, I, i + 1)

\* the unprocessed lists the service may answer to a submitted list
UnprocessedChoices(sub) ==
    IF Len(sub) <= MaxFree
    THEN {Pick(sub, I, 1) : I \in SUBSET (1..Len(sub))}
    ELSE {<<>>, <<sub[Len(sub)]>>}

\* the primary key of item k in a table whose sort key name is sk_name: the
\* value of its partition key, and of its sort key when the table has one
PrimaryKey(sk_name, k) ==
    IF sk_name = None THEN <<PkValue(k)>> ELSE <<PkValue(k), SkValue(k)>>

\* a table holds one item per primary key
ValidKeys(sk_name, ks) ==
    \A a, b \in ks : PrimaryKey(sk_name, a) = PrimaryKey(sk_name, b) => a = b

\* content c of a table of sort key name sk_name after the service applied the
\* requests reqs of the given kind, one after the other: a put replaces the
\* item of the same primary key, a delete removes it. What is left under a
\* primary key is what the last request on that key made of it.
Apply(sk_name, c, kind, reqs) ==
    [k \in DOMAIN c |->
        LET key == PrimaryKey(sk_name, k)
            on == {i \in 1..Len(reqs) : PrimaryKey(sk_name, reqs[i][1]) = key}
        IN  IF on = {} THEN c[k]
            ELSE LET r == reqs[CHOOSE i \in on : \A j \in on : j <= i]
                 IN  IF kind = "PutRequest" /\ r[1] = k THEN r[2] ELSE 0]

\* the requests of sub that are not in the unprocessed list un
Accepted(sub, un) == SelectSeq(sub, LAMBDA r : r \notin Range(un))

\* the pages the service may answer when rem items are left to read: n items
\* and a continuation token (lek), which is always there while items are left
\* and may be there when none is
PageChoices(rem) ==
    {p \in [n : PageSizes(rem), lek : BOOLEAN] : (rem - p.n > 0) => p.lek}

\* the key attribute names: the partition key of the base table, and the
\* partition keys a secondary index may have (the table's, or its own)
BasePkName == "pk"

IndexPkNames == {"pk", "gpk"}

IndexNames == {"gsi", "gsi2"}

\* a table description without the GlobalSecondaryIndexes entry
NoIndexes == [present |-> FALSE, list |-> <<>>]

\* the sort key an index may have: none, or the table's
IndexSkNames == {None, "sk"}

\* response['Table'] of describe_table as far as indexes go: the entry is
\* absent, or lists the indexes with the HASH key and the RANGE key (None when
\* there is none) of their KeySchema
Descriptions ==
    {NoIndexes}
    \cup {[present |-> TRUE,
           list |-> <<[IndexName |-> <<"gsi">>, HASH |-> k, RANGE |-> r]>>] :
             k \in IndexPkNames, r \in IndexSkNames}
    \cup {[present |-> TRUE,
           list |-> <<[IndexName |-> <<"gsi2">>, HASH |-> "pk", RANGE |-> None],
                      [IndexName |-> <<"gsi">>, HASH |-> k, RANGE |-> "sk"]>>] :
             k \in IndexPkNames}

\* --------------------------------------------------------------------- state

VARIABLES
    op,            \* the public operation that runs: copy, items, restore, batch,
                   \* query, filter
    pc,            \* position of the orchestrating thread
    src,           \* handle the items are read from (self; other in restore)
    tgt,           \* handle the items are written to (other; self in restore)
    ncpu,          \* os.cpu_count()
    nkeys,         \* the tables' keys are 1..nkeys
    qsk,           \* the sk argument of copy_dynamodb_items: <<>> for None, <<prefix>>
    db,            \* table identity -> content
    db0,           \* the content of the tables when the operation started
    exists,        \* identities of the tables that exist
    backups,       \* identities of the tables an on-demand backup was requested of
    remote,        \* kinds of the remote calls issued so far by the operation
    tpc,           \* position inside _truncate
    tlek,          \* _truncate: LastEvaluatedKey of the current page (0: none)
    tbuf,          \* _truncate: the batch_writer's buffer of delete requests
    tpage,         \* _truncate: the keys of the page the for loop has yet to take
    seg,           \* _copy_in_parallel_batch: the loop variable segment
    slek,          \* the paginator's (or the query's) continuation key (0: none)
    items,         \* the items list being filled by scan / query_items
    segReqs,       \* the <<Segment, TotalSegments>> of every scan dispatched
    collected,     \* every item the segment scans returned, in order
    source_items,  \* copy_dynamodb_items: result of self.query_items
    target_items,  \* copy_dynamodb_items: result of other.query_items
    tasks,         \* the batches handed to the worker pool, with their progress
    in_items,      \* batch: the list handed to the batcher
    out_batches,   \* batch: what the batcher returned
    pages,         \* query command: the responses query_items got, in order
    index_name,    \* query_with_filter: the index_name argument, <<>> for None
    gsi,           \* the GlobalSecondaryIndexes of the table's description
    key_name,      \* query_with_filter: <<attribute name of Key(...)>> once built
    failed,        \* the first exception raised in the operation, or None
    err            \* the exception that reached the caller, or None

vars == <<op, pc, src, tgt, ncpu, nkeys, qsk, db, db0, exists, backups, remote, tpc,
          tlek, tbuf, tpage, seg, slek, items, segReqs, collected, source_items,
          target_items, tasks, in_items, out_batches, pages, index_name, gsi,
          key_name, failed, err>>

Handles == [env : Envs, table_name : TableNames, sk_name : {"sk", None}]

\* DynamodbTable(env, table_name); sk is the sort key name _get_primary_key
\* found in the table's key schema (None for a table with a partition key only)
Handle(e, name, sk) == [env |-> e, table_name |-> name, sk_name |-> sk]

InitTables(s, t, S0, T0, n) ==
    [i \in {Id(s), Id(t)} |-> IF i = Id(s) THEN TableOf(S0, n, 1) ELSE TableOf(T0, n, 2)]

InitRest ==
    /\ pc = "start"
    /\ db0 = db
    /\ exists = DOMAIN db
    /\ backups = {}
    /\ remote = {}
    /\ tpc = "idle"
    /\ tlek = 0
    /\ tbuf = <<>>
    /\ tpage = <<>>
    /\ seg = 0
    /\ slek = 0
    /\ items = <<>>
    /\ segReqs = <<>>
    /\ collected = <<>>
    /\ source_items = <<>>
    /\ target_items = <<>>
    /\ tasks = <<>>
    /\ out_batches = <<>>
    /\ pages = <<>>
    /\ key_name = <<>>
    /\ failed = None
    /\ err = None

\* small tables with any items, one per primary key
SmallTables ==
    /\ nkeys = MaxKey
    /\ \E S0 \in {S \in SUBSET (1..MaxKey) : ValidKeys(src.sk_name, S)},
          T0 \in {T \in SUBSET (1..MaxKey) : ValidKeys(tgt.sk_name, T)} :
          db = InitTables(src, tgt, S0, T0, MaxKey)
    /\ in_items = <<>>

\* source.copy_dynamodb_table(target)
InitCopy ==
    /\ op = "copy"
    /\ ncpu \in CpuCounts
    /\ \E sn \in SourceNames, te \in Envs, tn \in TableNames :
          /\ src = Handle("dev", sn, "sk")
          /\ tgt = Handle(te, tn, "sk")
    /\ qsk = <<>>
    /\ SmallTables

\* source.copy_dynamodb_items(target, pk, sk), on tables with and without a
\* sort key
InitItems ==
    /\ op = "items"
    /\ ncpu \in {1, 4}
    /\ \E sk \in {"sk", None}, sn \in SourceNames, te \in Envs, tn \in TableNames :
          /\ src = Handle("dev", sn, sk)
          /\ tgt = Handle(te, tn, sk)
    /\ qsk \in {<<>>, <<SkPrefix>>}
    /\ SmallTables

\* table.restore_from_backup(backup)
InitRestore ==
    /\ op = "restore"
    /\ ncpu \in {1, 4}
    /\ \E sn \in SourceNames, te \in Envs :
          /\ src = Handle("dev", sn, "sk")
          /\ tgt = Handle(te, <<"u">>, "sk")
    /\ qsk = <<>>
    /\ SmallTables

\* two large tables of the same name in two environments
InitBig ==
    /\ op \in {"copy", "items"}
    /\ nkeys = BigKeys
    /\ ncpu = (IF op = "copy" THEN 1 ELSE 4)
    /\ src = Handle("dev", <<"u">>, "sk")
    /\ tgt = Handle("prd", <<"u">>, "sk")
    /\ qsk = <<>>
    /\ db = InitTables(src, tgt, 1..BigKeys, 1..BigKeys, BigKeys)
    /\ in_items = <<>>

\* a copy of a table of five write batches into an empty one, on one cpu
InitChunks ==
    /\ op = "copy"
    /\ nkeys = ChunkKeys
    /\ ncpu = 1
    /\ src = Handle("dev", <<"u">>, "sk")
    /\ tgt = Handle("prd", <<"u">>, "sk")
    /\ qsk = <<>>
    /\ db = InitTables(src, tgt, 1..ChunkKeys, {}, ChunkKeys)
    /\ in_items = <<>>

\* a copy between tables whose key schema has a partition key only
InitKeyOnly ==
    /\ op = "copy"
    /\ ncpu = 1
    /\ src = Handle("dev", <<"u">>, None)
    /\ tgt = Handle("prd", <<"u">>, None)
    /\ qsk = <<>>
    /\ SmallTables

\* the batcher alone, on a list of n distinct items
InitBatch ==
    /\ op = "batch"
    /\ nkeys = 0
    /\ ncpu = 1
    /\ src = Handle("dev", <<"u">>, "sk")
    /\ tgt = src
    /\ qsk = <<>>
    /\ db = InitTables(src, tgt, {}, {}, 0)
    /\ \E n \in 0..MaxN : in_items = [i \in 1..n |-> <<i, 1>>]

\* the query command: table.query_items(pk, sk) on a small or a large table
InitQuery ==
    /\ op = "query"
    /\ ncpu = 1
    /\ \E sk \in {"sk", None} : src = Handle("dev", <<"u">>, sk)
    /\ tgt = src
    /\ qsk \in {<<>>, <<SkPrefix>>}
    /\ \E n \in {MaxKey, BigKeys} :
          /\ nkeys = n
          /\ \E S0 \in {S \in {{}, 1..n} \cup SUBSET (1..MaxKey) :
                             ValidKeys(src.sk_name, S)} :
                db = InitTables(src, tgt, S0, S0, n)
    /\ in_items = <<>>

\* no index is named, and the table's description lists none
NoIndex == index_name = <<>> /\ gsi = NoIndexes

\* the query command and the selective copy with the name of a secondary
\* index, on tables with or without secondary indexes (both tables of a copy
\* have the same description)
InitIndex ==
    /\ op \in {"query", "items"}
    /\ ncpu = 1
    /\ src = Handle("dev", <<"u">>, "sk")
    /\ tgt = (IF op = "query" THEN src ELSE Handle("prd", <<"u">>, "sk"))
    /\ qsk \in {<<>>, <<SkPrefix>>}
    /\ index_name \in {<<n>> : n \in IndexNames}
    /\ gsi \in Descriptions
    /\ SmallTables

\* table.query_with_filter(pk, attr_key, attr_value, index_name) on a table
\* with or without secondary indexes
InitFilter ==
    /\ op = "filter"
    /\ ncpu = 1
    /\ src = Handle("dev", <<"u">>, "sk")
    /\ tgt = src
    /\ qsk \in {<<>>, <<SkPrefix>>}
    /\ index_name \in {<<>>} \cup {<<n>> : n \in IndexNames}
    /\ gsi \in Descriptions
    /\ SmallTables

Init ==
    /\ \/ InitFilter
       \/ InitIndex
       \/ /\ \/ InitCopy \/ InitItems \/ InitRestore \/ InitBig \/ InitBatch
             \/ InitQuery \/ InitChunks \/ InitKeyOnly
          /\ NoIndex
    /\ InitRest

\* the orchestrating thread gets an exception
Raise(e) == pc' = "raised" /\ err' = e

\* an exception e is raised, in the orchestrating thread or in a pool worker
Fail(e) == failed' = (IF failed = None THEN e ELSE failed)

\* ------------------------------------------------------------------- batcher

\* the list comprehension of dynamodb_table.py:228 applied to in_items
Batch ==
    /\ op = "batch" /\ pc = "start"
    /\ out_batches' = Batcher(in_items)
    /\ pc' = "done"
    /\ UNCHANGED <<op, tpage, failed, index_name, gsi, key_name, pages, src,
                   tgt, ncpu, nkeys, qsk, db0, db, exists, backups, remote,
                   tpc, tlek, tbuf, seg, slek, items, segReqs, collected,
                   source_items, target_items, tasks, in_items, err>>

\* ------------------------------------------------------ copy-compatibility

\* copy_dynamodb_table / copy_dynamodb_items: the name check that opens both
CopyCheck ==
    /\ op \in {"copy", "items"} /\ pc = "start"
    /\ IF ~CopyCompatible(src.table_name, tgt.table_name)
       THEN Raise("CannotCopy") /\ Fail("CannotCopy")
       ELSE /\ pc' = (IF op = "copy" THEN "backup" ELSE "query_src")
            /\ UNCHANGED <<err, failed>>
    /\ UNCHANGED <<op, tpage, index_name, gsi, key_name, pages, src, tgt,
                   ncpu, nkeys, qsk, db0, db, exists, backups, remote, tpc,
                   tlek, tbuf, seg, slek, items, segReqs, collected,
                   source_items, target_items, tasks, in_items, out_batches>>

\* other.create_backup()
CreateBackup ==
    /\ pc = "backup"
    /\ remote' = remote \cup {"backup"}
    /\ \/ /\ backups' = backups \cup {Id(tgt)}
          /\ pc' = "truncate"
          /\ tpc' = "scan"
          /\ UNCHANGED <<err, failed>>
       \/ /\ Raise("BackupError") /\ Fail("BackupError")
          /\ UNCHANGED <<backups, tpc>>
    /\ UNCHANGED <<op, tpage, index_name, gsi, key_name, pages, src, tgt,
                   ncpu, nkeys, qsk, db0, db, exists, tlek, tbuf, seg, slek,
                   items, segReqs, collected, source_items, target_items,
                   tasks, in_items, out_batches>>

\* restore_from_backup opens with self._truncate()
RestoreStart ==
    /\ op = "restore" /\ pc = "start"
    /\ pc' = "truncate"
    /\ tpc' = "scan"
    /\ UNCHANGED <<op, tpage, failed, index_name, gsi, key_name, pages, src,
                   tgt, ncpu, nkeys, qsk, db0, db, exists, backups, remote,
                   tlek, tbuf, seg, slek, items, segReqs, collected,
                   source_items, target_items, tasks, in_items, out_batches,
                   err>>

\* ----------------------------------------------------------------- truncator

\* the keys of set ks, a part of 1..nkeys, in ascending order
SortedKeys(ks) == SelectSeq([k \in 1..nkeys |-> k], LAMBDA k : k \in ks)

\* the keys of content c after key lek, in scan order
KeysAfter(c, lek) == SortedKeys({k \in ItemsIn(c) : k > lek})

\* the condition of the while loop of _truncate on a page of n items
TruncateLoops(n) == n > 0

\* batch.delete_item appends a request to the buffer and flushes when the
\* buffer then holds FlushAmount requests or more: the number of requests of
\* page the for loop adds to buffer buf before a flush is due
AddCount(buf, page) ==
    Min(Len(page), IF Len(buf) >= FlushAmount THEN 1 ELSE FlushAmount - Len(buf))

\* the for loop of _truncate on the keys of page, from buffer buf, up to the
\* delete_item that flushes or to the end of the page
Fill(buf, page) ==
    LET n == AddCount(buf, page)
        buf1 == buf \o SubSeq(page, 1, n)
    IN  [tbuf |-> buf1, tpage |-> SubSeq(page, n + 1, Len(page)),
         flush |-> n > 0 /\ Len(buf1) >= FlushAmount]

\* the scan is the one of line 173, before the with block
FirstScan == tlek = 0

\* table.scan of _truncate (the first page, or the page after tlek) and the
\* loop body on that page up to its first flush.  A scan that raises inside the
\* with block leaves it through the batch writer's __exit__.
TruncScan ==
    /\ pc = "truncate" /\ tpc = "scan"
    /\ remote' = remote \cup {"scan"}
    /\ \/ /\ LET rem == KeysAfter(db[Id(tgt)], tlek)
             IN  \E p \in PageChoices(Len(rem)) :
                    IF TruncateLoops(p.n)
                    THEN LET f == Fill(tbuf, [i \in 1..p.n |-> <<rem[i], 0>>])
                         IN  /\ tbuf' = f.tbuf
                             /\ tpage' = f.tpage
                             /\ tlek' = (IF p.lek THEN rem[p.n] ELSE 0)
                             /\ tpc' = (IF f.flush THEN "autoflush" ELSE "next")
                    ELSE /\ tpc' = "exitflush"
                         /\ UNCHANGED <<tbuf, tpage, tlek>>
          /\ UNCHANGED <<pc, err, failed>>
       \* the scan raises
       \/ /\ Fail("TruncateError")
          /\ IF FirstScan
             THEN Raise("TruncateError") /\ tpc' = tpc
             ELSE tpc' = "exitflush" /\ UNCHANGED <<pc, err>>
          /\ UNCHANGED <<tbuf, tpage, tlek>>
    /\ UNCHANGED <<op, index_name, gsi, key_name, pages, src, tgt, ncpu,
                   nkeys, qsk, db0, db, exists, backups, seg, slek, items,
                   segReqs, collected, source_items, target_items, tasks,
                   in_items, out_batches>>

\* the batch writer's _flush: it takes the first FlushAmount requests out of
\* its buffer, sends them and appends the unprocessed ones to the buffer.  It
\* runs inside delete_item when the buffer is full, after which the for loop
\* goes on with the page, and in __exit__ until the buffer is empty.  When
\* batch_write_item raises inside the loop the with block is left through
\* __exit__; when it raises in __exit__ the exception leaves _truncate.
TruncFlush ==
    /\ pc = "truncate"
    /\ \/ tpc = "autoflush"
       \/ tpc = "exitflush" /\ tbuf # <<>>
    /\ remote' = remote \cup {"delete"}
    /\ LET send == SubSeq(tbuf, 1, Min(FlushAmount, Len(tbuf)))
           rest == SubSeq(tbuf, Len(send) + 1, Len(tbuf))
       IN  \/ /\ \E un \in UnprocessedChoices(send) :
                    /\ db' = [db EXCEPT ![Id(tgt)] =
                                 Apply(tgt.sk_name, @, "DeleteRequest", Accepted(send, un))]
                    /\ IF tpc = "autoflush"
                       THEN LET f == Fill(rest \o un, tpage)
                            IN  /\ tbuf' = f.tbuf
                                /\ tpage' = f.tpage
                                /\ tpc' = (IF f.flush THEN "autoflush" ELSE "next")
                       ELSE /\ tbuf' = rest \o un
                            /\ UNCHANGED <<tpage, tpc>>
              /\ UNCHANGED <<pc, err, failed>>
           \* batch_write_item raises
           \/ /\ Fail("TruncateError")
              /\ tbuf' = rest
              /\ IF tpc = "autoflush"
                 THEN tpage' = <<>> /\ tpc' = "exitflush" /\ UNCHANGED <<pc, err>>
                 ELSE Raise("TruncateError") /\ UNCHANGED <<tpage, tpc>>
              /\ db' = db
    /\ UNCHANGED <<op, index_name, gsi, key_name, pages, src, tgt, ncpu,
                   nkeys, qsk, db0, exists, backups, tlek, seg, slek, items,
                   segReqs, collected, source_items, target_items, tasks,
                   in_items, out_batches>>

\* the end of the loop body: the next page if the page had a LastEvaluatedKey,
\* else break
TruncNext ==
    /\ pc = "truncate" /\ tpc = "next"
    /\ tpc' = (IF tlek # 0 THEN "scan" ELSE "exitflush")
    /\ UNCHANGED <<op, failed, index_name, gsi, key_name, pages, pc, src, tgt,
                   ncpu, nkeys, qsk, db0, db, exists, backups, remote, tlek,
                   tbuf, tpage, seg, slek, items, segReqs, collected,
                   source_items, target_items, tasks, in_items, out_batches,
                   err>>

\* the with block is left with an empty buffer: the exception that was raised
\* inside it goes on to the caller, else _truncate returns and its caller goes
\* on to _copy_in_parallel_batch
TruncReturn ==
    /\ pc = "truncate" /\ tpc = "exitflush" /\ tbuf = <<>>
    /\ IF failed # None
       THEN Raise(failed) /\ UNCHANGED <<tpc, tlek, seg>>
       ELSE /\ tpc' = "idle"
            /\ tlek' = 0
            /\ pc' = "segments"
            /\ seg' = 0
            /\ err' = err
    /\ UNCHANGED <<op, failed, index_name, gsi, key_name, pages, src, tgt,
                   ncpu, nkeys, qsk, db0, db, exists, backups, remote, tbuf,
                   tpage, slek, items, segReqs, collected, source_items,
                   target_items, tasks, in_items, out_batches>>

\* -------------------------------------------------------------- batch writer

\* pool.starmap cuts its n batches into chunks for its workers: chunksize is
\* the quotient of n by four times the number of workers, plus one when the
\* division leaves a remainder
ChunkSize(n, workers) ==
    (n \div (4 * workers)) + (IF n % (4 * workers) # 0 THEN 1 ELSE 0)

\* the chunk, counted from 0, of batch i of n
ChunkOf(i, n, workers) == (i - 1) \div ChunkSize(n, workers)

\* one call of the function _write_batch_items_with_retry returns, as the pool
\* runs it on one batch of chunk c: st is wait (not handed to the pool yet),
\* queued, retry (between two write calls), done (returned), raised, or
\* skipped (a batch before it in its chunk raised); status is the
\* HTTPStatusCode of the last response (0 before the first)
NewTask(kind, batch, st, c) ==
    [kind |-> kind, batch |-> batch, st |-> st, unproc |-> <<>>, backoff |-> 0,
     sleeps |-> <<>>, calls |-> 0, last |-> <<>>, acked |-> {}, throttled |-> 0,
     status |-> 0, chunk |-> c]

\* the batches of one pool.starmap
NewTasks(kind, batches, st) ==
    [i \in 1..Len(batches) |->
        NewTask(kind, batches[i], st, ChunkOf(i, Len(batches), ncpu))]

Finished(t) == t.st \in {"done", "raised", "skipped"}

\* the chunks of the starmap of batch i that come before the chunk of batch i
\* and have a batch that is not through
OpenBefore(i) ==
    {tasks[j].chunk : j \in {j \in 1..Len(tasks) :
                                /\ tasks[j].kind = tasks[i].kind
                                /\ tasks[j].chunk < tasks[i].chunk
                                /\ ~Finished(tasks[j])}}

\* a worker of mp.Pool(os.cpu_count()) has come to batch i: the workers take
\* the chunks in their order, and a worker runs the batches of its chunk one
\* after the other
Runs(i) ==
    /\ Cardinality(OpenBefore(i)) < ncpu
    /\ \A j \in 1..(i - 1) :
          (tasks[j].kind = tasks[i].kind /\ tasks[j].chunk = tasks[i].chunk) =>
              tasks[j].st = "done"

\* a batch that raises ends its chunk: the batches after it in the chunk are
\* never run
EndChunk(ts, i) ==
    IF ts[i].st # "raised" THEN ts
    ELSE [j \in 1..Len(ts) |->
             IF j > i /\ ts[j].kind = ts[i].kind /\ ts[j].chunk = ts[i].chunk
             THEN [ts[j] EXCEPT !.st = "skipped"]
             ELSE ts[j]]

\* the service answers at most MaxRetries times in a row with unprocessed items
AllowedUnprocessed(sub, retries) ==
    IF retries < MaxRetries THEN UnprocessedChoices(sub) ELSE {<<>>}

\* the attribute names of the key schema of the table of handle h
KeySchemaNames(h) == {BasePkName} \cup (IF h.sk_name = None THEN {} ELSE {h.sk_name})

\* the attribute names an item of the table has: its key and its data
ItemAttributes(h) == KeySchemaNames(h) \cup {"data"}

\* _write_batch_items: the names the Key of a DeleteRequest is built on,
\* self.pk_name and self.sk_name, which is None for a table without sort key
DeleteKeyNames(h) == {BasePkName, h.sk_name}

\* _write_batch_items: the Key of a DeleteRequest reads item[name] for each
\* of these names, a KeyError when the item has no such attribute
KeyError(h, kind, batch) ==
    /\ kind = "DeleteRequest" /\ batch # <<>>
    /\ ~(DeleteKeyNames(h) \subseteq ItemAttributes(h))

\* _write_batch_items: the request list of a batch, one request per item
RequestItems(kind, batch) == batch

\* a retry that loses the first unprocessed request
RetrySubmissionLossy(t) == Tail(t.unproc)

\* _write_batch_unprocessed_items: what a retry submits
RetrySubmission(t) == t.unproc

\* a delay that grows by a constant instead of doubling
NextBackoffLinear(b) == b + 2

\* backoff_time *= 2
NextBackoff(b) == b * 2

\* the condition of the while loop of __write_batch_items_with_retry
RetryNeeded(un) == un # <<>>

\* a writer that looks at the unprocessed items before it looks at the status
AfterWriteUnprocessedFirst(t, sub, status, un, b) ==
    [t EXCEPT !.st = (IF RetryNeeded(un) THEN "retry"
                      ELSE IF status # 200 THEN "raised" ELSE "done"),
              !.unproc = un, !.last = sub, !.calls = @ + 1, !.backoff = b,
              !.status = status]

\* a writer that gives up after its first retry
AfterWriteCeiling(t, sub, status, un, b) ==
    [t EXCEPT !.st = (IF status # 200 \/ (RetryNeeded(un) /\ t.sleeps # <<>>)
                      THEN "raised"
                      ELSE IF RetryNeeded(un) THEN "retry" ELSE "done"),
              !.unproc = un, !.last = sub, !.calls = @ + 1, !.backoff = b,
              !.status = status]

\* the task after a write call that submitted sub and was answered with
\* (status, un); b is the backoff_time the loop then holds
AfterWrite(t, sub, status, un, b) ==
    IF status # 200
    THEN [t EXCEPT !.st = "raised", !.unproc = un, !.last = sub,
                   !.calls = @ + 1, !.backoff = b, !.status = status]
    ELSE [t EXCEPT !.st = (IF RetryNeeded(un) THEN "retry" ELSE "done"),
                   !.unproc = un, !.last = sub, !.calls = @ + 1, !.backoff = b,
                   !.status = status,
                   !.acked = @ \cup Range(Accepted(sub, un)),
                   !.throttled = @ + (IF un # <<>> THEN 1 ELSE 0)]

\* client.batch_write_item on the target table: the service applies what it
\* does not report as unprocessed, and nothing when the status is not 200
WriteEffect(kind, sub, status, un) ==
    /\ db' = [db EXCEPT ![Id(tgt)] =
                 IF status = 200 THEN Apply(tgt.sk_name, @, kind, Accepted(sub, un))
                 ELSE @]
    /\ remote' = remote \cup {IF kind = "PutRequest" THEN "put" ELSE "delete"}

\* a pool worker starts a batch: _write_batch_items and the status test
WriteFirst(i) ==
    /\ pc \in {"writing", "deleting", "putting"}
    /\ tasks[i].st = "queued"
    /\ Runs(i)
    /\ LET t == tasks[i]
           sub == RequestItems(t.kind, t.batch)
       IN  IF KeyError(tgt, t.kind, t.batch)
           THEN /\ tasks' = EndChunk([tasks EXCEPT ![i].st = "raised"], i)
                /\ Fail("WriteError")
                /\ UNCHANGED <<db, remote>>
           ELSE \E status \in {200, 500}, un \in AllowedUnprocessed(sub, 0) :
                   /\ tasks' = EndChunk([tasks EXCEPT
                                  ![i] = AfterWrite(t, sub, status, un, InitialBackoff)], i)
                   /\ WriteEffect(t.kind, sub, status, un)
                   /\ IF status # 200 THEN Fail("WriteError") ELSE failed' = failed
    /\ UNCHANGED <<op, tpage, index_name, gsi, key_name, pages, pc, src, tgt,
                   ncpu, nkeys, qsk, db0, exists, backups, tpc, tlek, tbuf,
                   seg, slek, items, segReqs, collected, source_items,
                   target_items, in_items, out_batches, err>>

\* one turn of the while loop: sleep, double the delay, resubmit, test the status
WriteRetry(i) ==
    /\ pc \in {"writing", "deleting", "putting"}
    /\ tasks[i].st = "retry"
    /\ LET t == tasks[i]
           sub == RetrySubmission(t)
           slept == [t EXCEPT !.sleeps = Append(@, t.backoff)]
       IN  \E status \in {200, 500}, un \in AllowedUnprocessed(sub, Len(slept.sleeps)) :
              /\ tasks' = EndChunk([tasks EXCEPT
                             ![i] = AfterWrite(slept, sub, status, un, NextBackoff(t.backoff))], i)
              /\ WriteEffect(t.kind, sub, status, un)
              /\ IF status # 200 THEN Fail("WriteError") ELSE failed' = failed
    /\ UNCHANGED <<op, tpage, index_name, gsi, key_name, pages, pc, src, tgt,
                   ncpu, nkeys, qsk, db0, exists, backups, tpc, tlek, tbuf,
                   seg, slek, items, segReqs, collected, source_items,
                   target_items, in_items, out_batches, err>>

\* ----------------------------------------------------------- segmented scan

\* a scan request that always names segment 0
ScanRequestFirstOnly(segment, num_threads) == <<0, num_threads>>

\* pool.apply_async(scan, args=(self.env, segment, num_threads))
ScanRequest(segment, num_threads) == <<segment, num_threads>>

\* a segment loop that stops after the first segment
SegmentsLeftFirstOnly(segment, num_threads) == segment < 1

\* for segment in range(num_threads): there is a next segment
SegmentsLeft(segment, num_threads) == segment < num_threads

\* the loop of _copy_in_parallel_batch dispatches the scan of the next segment
ScanStart ==
    /\ pc = "segments" /\ SegmentsLeft(seg, ncpu)
    /\ segReqs' = Append(segReqs, ScanRequest(seg, ncpu))
    /\ items' = <<>>
    /\ slek' = 0
    /\ pc' = "scanning"
    /\ UNCHANGED <<op, tpage, failed, index_name, gsi, key_name, pages, src,
                   tgt, ncpu, nkeys, qsk, db0, db, exists, backups, remote,
                   tpc, tlek, tbuf, seg, collected, source_items,
                   target_items, tasks, in_items, out_batches, err>>

\* the keys of content c the service puts in segment r[1] of r[2], after lek
SegmentKeysAfter(c, r, lek) ==
    SortedKeys({k \in ItemsIn(c) : k > lek /\ SegmentOf(k, r[2]) = r[1]})

\* one page of the scan paginator; after the page without a continuation token
\* scan returns, result.get() hands the items over and the batches are built
\* and given to pool.starmap
ScanPage ==
    /\ pc = "scanning"
    /\ remote' = remote \cup {"scan"}
    /\ \/ /\ LET c == db[Id(src)]
                 rem == SegmentKeysAfter(c, segReqs[Len(segReqs)], slek)
             IN  \E p \in PageChoices(Len(rem)) :
                    LET got == items \o ItemsOf(c, SubSeq(rem, 1, p.n))
                    IN  /\ items' = got
                        /\ IF p.lek
                           THEN /\ slek' = (IF p.n > 0 THEN rem[p.n] ELSE slek)
                                /\ UNCHANGED <<pc, collected, tasks>>
                           ELSE /\ slek' = 0
                                /\ collected' = collected \o got
                                /\ tasks' = NewTasks("PutRequest", Batcher(got), "queued")
                                /\ pc' = "writing"
          /\ UNCHANGED <<err, failed>>
       \* the scan raises in the worker, and result.get() raises it again
       \/ /\ Raise("ScanError") /\ Fail("ScanError")
          /\ UNCHANGED <<items, slek, collected, tasks>>
    /\ UNCHANGED <<op, tpage, index_name, gsi, key_name, pages, src, tgt,
                   ncpu, nkeys, qsk, db0, db, exists, backups, tpc, tlek,
                   tbuf, seg, segReqs, source_items, target_items, in_items,
                   out_batches>>

\* a starmap that drops the exceptions of its workers
WorkerRaisedIgnored(S) == FALSE

\* pool.starmap raises again the exception a worker raised on a batch of S
WorkerRaised(S) == \E i \in S : tasks[i].st = "raised"

\* pool.starmap(put_batch_items_with_retry, batches) returns once every chunk
\* is through; it re-raises a worker's exception
StarmapReturn ==
    /\ pc = "writing"
    /\ \A i \in 1..Len(tasks) : Finished(tasks[i])
    /\ IF WorkerRaised(1..Len(tasks))
       THEN Raise("WriteError") /\ UNCHANGED <<seg, tasks>>
       ELSE /\ pc' = "segments"
            /\ seg' = seg + 1
            /\ tasks' = <<>>
            /\ err' = err
    /\ UNCHANGED <<op, tpage, failed, index_name, gsi, key_name, pages, src,
                   tgt, ncpu, nkeys, qsk, db0, db, exists, backups, remote,
                   tpc, tlek, tbuf, slek, items, segReqs, collected,
                   source_items, target_items, in_items, out_batches>>

\* pool.close(); pool.join(): _copy_in_parallel_batch returns
PoolJoin ==
    /\ pc = "segments" /\ ~SegmentsLeft(seg, ncpu)
    /\ pc' = (IF op = "restore" THEN "delete_table" ELSE "done")
    /\ UNCHANGED <<op, tpage, failed, index_name, gsi, key_name, pages, src,
                   tgt, ncpu, nkeys, qsk, db0, db, exists, backups, remote,
                   tpc, tlek, tbuf, seg, slek, items, segReqs, collected,
                   source_items, target_items, tasks, in_items, out_batches,
                   err>>

\* restore_from_backup: delete_table(TableName=other.table_name)
DeleteTable ==
    /\ pc = "delete_table"
    /\ exists' = exists \ {Id(src)}
    /\ db' = [db EXCEPT ![Id(src)] = EmptyTable(nkeys)]
    /\ remote' = remote \cup {"delete_table"}
    /\ pc' = "done"
    /\ UNCHANGED <<op, tpage, failed, index_name, gsi, key_name, pages, src,
                   tgt, ncpu, nkeys, qsk, db0, backups, tpc, tlek, tbuf, seg,
                   slek, items, segReqs, collected, source_items,
                   target_items, tasks, in_items, out_batches, err>>

\* ------------------------------------------------------------ selective copy

\* _get_secondary_key(index_name): the lookup of 'GlobalSecondaryIndexes' is a
\* KeyError when the description has no such entry, element [0] of the list
\* of the indexes of that name is an IndexError when no index has it; else
\* the HASH and the RANGE key name of the first one
GetSecondaryKey(desc, name) ==
    LET found == SelectSeq(desc.list, LAMBDA index : index.IndexName = name)
    IN  IF ~desc.present
        THEN [raises |-> "KeyError", pk_name |-> <<>>, sk_name |-> None]
        ELSE IF found = <<>>
        THEN [raises |-> "IndexError", pk_name |-> <<>>, sk_name |-> None]
        ELSE [raises |-> None, pk_name |-> <<found[1].HASH>>,
              sk_name |-> found[1].RANGE]

\* query_items: pk_name, sk_name are those of the index when index_name is
\* given, else those of the handle
QueryKey(h) ==
    IF index_name # <<>>
    THEN GetSecondaryKey(gsi, index_name)
    ELSE [raises |-> None, pk_name |-> <<BasePkName>>, sk_name |-> h.sk_name]

\* the value item k has for the partition key attribute of that name
AttrValue(name, k) == IF name = BasePkName THEN PkValue(k) ELSE GpkValue(k)

\* the partition key attribute the key condition of the operation is on
MatchPkName ==
    IF index_name # <<>> /\ GetSecondaryKey(gsi, index_name).raises = None
    THEN GetSecondaryKey(gsi, index_name).pk_name[1]
    ELSE BasePkName

\* the key condition of query_items: pk_name = :item_key, and
\* begins_with(sk_name, :val) when sk is given
Matches(k) ==
    /\ AttrValue(MatchPkName, k) = QueryPk
    /\ qsk # <<>> => BeginsWith(SkValue(k), qsk[1])

MatchingAfter(c, lek) == SortedKeys({k \in ItemsIn(c) : k > lek /\ Matches(k)})

\* query_items names the sort key in ExpressionAttributeNames when sk is given:
\* the client refuses the parameters when the table, or the index, has none
QueryRefused(h) == qsk # <<>> /\ QueryKey(h).sk_name = None

\* a loop that asks for another page whenever there is a continuation token
QueryContinuesOnToken(lek, scanned) == lek

\* the condition under which the loop of query_items asks for another page
QueryContinues(lek, scanned) == lek /\ scanned > 0

\* the query command calls query_items
QueryCmd ==
    /\ op = "query" /\ pc = "start"
    /\ pc' = "query_src"
    /\ UNCHANGED <<op, tpage, failed, index_name, gsi, key_name, pages, src,
                   tgt, ncpu, nkeys, qsk, db0, db, exists, backups, remote,
                   tpc, tlek, tbuf, seg, slek, items, segReqs, collected,
                   source_items, target_items, tasks, in_items, out_batches,
                   err>>

\* the response log of the query command after a page of n items got
LogPage(log, p, got) ==
    IF op = "query"
    THEN Append(log, [ScannedCount |-> p.n, LastEvaluatedKey |-> p.lek, Items |-> got])
    ELSE log

\* a selective copy that builds no delete batch
TargetBatchesNone(got) == <<>>

\* _copy_items_in_parallel_batch: target_batches, the target items in batches
TargetBatches(got) == Batcher(got)

\* query_items on handle h: the key names (a failing index lookup raises
\* before any query), then one page of the query loop; when the loop breaks
\* the list goes to the caller
QueryPage(h, at, next) ==
    /\ pc = at
    /\ IF QueryKey(h).raises # None
       THEN /\ Raise(QueryKey(h).raises) /\ Fail(QueryKey(h).raises)
            /\ UNCHANGED <<items, slek, source_items, target_items, tasks, remote,
                           pages>>
       ELSE IF QueryRefused(h)
       THEN /\ Raise("ParamValidationError") /\ Fail("ParamValidationError")
            /\ UNCHANGED <<items, slek, source_items, target_items, tasks, remote,
                           pages>>
       ELSE /\ LET c == db[Id(h)]
                   rem == MatchingAfter(c, slek)
               IN  \E p \in PageChoices(Len(rem)) :
                      LET page == ItemsOf(c, SubSeq(rem, 1, p.n))
                          got == items \o page
                      IN  /\ pages' = LogPage(pages, p, page)
                          /\ IF QueryContinues(p.lek, p.n)
                             THEN /\ items' = got
                                  /\ slek' = (IF p.n > 0 THEN rem[p.n] ELSE slek)
                                  /\ UNCHANGED <<pc, source_items, target_items, tasks>>
                             ELSE /\ items' = <<>>
                                  /\ slek' = 0
                                  /\ pc' = next
                                  /\ IF at = "query_src"
                                     THEN /\ source_items' = got
                                          /\ UNCHANGED <<target_items, tasks>>
                                     ELSE /\ target_items' = got
                                          /\ source_items' = source_items
                                          \* _copy_items_in_parallel_batch: the batches
                                          /\ tasks' =
                                               NewTasks("DeleteRequest", TargetBatches(got), "queued")
                                               \o NewTasks("PutRequest", Batcher(source_items), "wait")
            /\ remote' = remote \cup {"query"}
            /\ UNCHANGED <<err, failed>>
    /\ UNCHANGED <<op, tpage, index_name, gsi, key_name, src, tgt, ncpu,
                   nkeys, qsk, db0, db, exists, backups, tpc, tlek, tbuf, seg,
                   segReqs, collected, in_items, out_batches>>

\* source_items = self.query_items(...) of copy_dynamodb_items, or
\* items = table.query_items(...) of the query command
QuerySource ==
    QueryPage(src, "query_src", IF op = "query" THEN "done" ELSE "query_tgt")

\* target_items = other.query_items(...), then _copy_items_in_parallel_batch
\* hands the delete batches to the pool
QueryTarget == QueryPage(tgt, "query_tgt", "deleting")

DeleteTasks == {i \in 1..Len(tasks) : tasks[i].kind = "DeleteRequest"}

PutTasks == {i \in 1..Len(tasks) : tasks[i].kind = "PutRequest"}

\* a delete starmap that does not wait for its batches (starmap_async)
DeleteStarmapAsync == TRUE

\* pool.starmap(delete_batch_items_with_retry, target_batches) blocks until
\* every chunk of delete batches is through
DeleteStarmapReturns == \A i \in DeleteTasks : Finished(tasks[i])

\* the delete starmap returns (or re-raises); the put batches go to the pool
ItemsPutDispatch ==
    /\ pc = "deleting"
    /\ DeleteStarmapReturns
    /\ IF WorkerRaised(DeleteTasks)
       THEN Raise("WriteError") /\ tasks' = tasks
       ELSE /\ tasks' = [i \in 1..Len(tasks) |->
                           IF tasks[i].st = "wait"
                           THEN [tasks[i] EXCEPT !.st = "queued"] ELSE tasks[i]]
            /\ pc' = "putting"
            /\ err' = err
    /\ UNCHANGED <<op, tpage, failed, index_name, gsi, key_name, pages, src,
                   tgt, ncpu, nkeys, qsk, db0, db, exists, backups, remote,
                   tpc, tlek, tbuf, seg, slek, items, segReqs, collected,
                   source_items, target_items, in_items, out_batches>>

\* the put starmap returns (or re-raises); pool.close(), pool.join()
ItemsReturn ==
    /\ pc = "putting"
    /\ \A i \in 1..Len(tasks) : Finished(tasks[i])
    /\ IF WorkerRaised(1..Len(tasks))
       THEN Raise("WriteError")
       ELSE pc' = "done" /\ err' = err
    /\ UNCHANGED <<op, tpage, failed, index_name, gsi, key_name, pages, src,
                   tgt, ncpu, nkeys, qsk, db0, db, exists, backups, remote,
                   tpc, tlek, tbuf, seg, slek, items, segReqs, collected,
                   source_items, target_items, tasks, in_items, out_batches>>

\* --------------------------------------------------------- query with filter

\* the service validates a query: the named index must exist, and the key
\* condition must be on the partition key of what is queried
QueryValid(desc, name, key) ==
    IF name = <<>> THEN key = BasePkName
    ELSE \E i \in 1..Len(desc.list) :
            desc.list[i].IndexName = name /\ desc.list[i].HASH = key

\* the partition key name each branch of query_with_filter builds Key(...) on
FilterKeyName(name) ==
    IF name # <<>>
    THEN [raises |-> None, pk_name |-> <<BasePkName>>]
    ELSE GetSecondaryKey(gsi, name)

\* query_with_filter: one table.query, whose first page of items is returned
QueryWithFilter ==
    /\ op = "filter" /\ pc = "start"
    /\ LET k == FilterKeyName(index_name)
       IN  IF k.raises # None
           THEN /\ Raise(k.raises) /\ Fail(k.raises)
                /\ UNCHANGED <<key_name, source_items, remote>>
           ELSE /\ key_name' = k.pk_name
                /\ remote' = remote \cup {"query"}
                /\ IF ~QueryValid(gsi, index_name, k.pk_name[1])
                   THEN /\ Raise("ValidationException")
                        /\ Fail("ValidationException")
                        /\ UNCHANGED source_items
                   ELSE /\ LET c == db[Id(src)]
                               rem == MatchingAfter(c, 0)
                           IN  \E p \in PageChoices(Len(rem)) :
                                  source_items' = ItemsOf(c, SubSeq(rem, 1, p.n))
                        /\ pc' = "done"
                        /\ UNCHANGED <<err, failed>>
    /\ UNCHANGED <<op, tpage, pages, index_name, gsi, src, tgt, ncpu, nkeys,
                   qsk, db0, db, exists, backups, tpc, tlek, tbuf, seg, slek,
                   items, segReqs, collected, target_items, tasks, in_items,
                   out_batches>>

\* ------------------------------------------------------------- specification

Next ==
    \/ Batch
    \/ CopyCheck
    \/ CreateBackup
    \/ RestoreStart
    \/ TruncScan
    \/ TruncFlush
    \/ TruncNext
    \/ TruncReturn
    \/ ScanStart
    \/ ScanPage
    \/ \E i \in 1..Len(tasks) : WriteFirst(i)
    \/ \E i \in 1..Len(tasks) : WriteRetry(i)
    \/ StarmapReturn
    \/ PoolJoin
    \/ DeleteTable
    \/ QueryCmd
    \/ QueryWithFilter
    \/ QuerySource
    \/ QueryTarget
    \/ ItemsPutDispatch
    \/ ItemsReturn

Spec == Init /\ [][Next]_vars

\* the selective copy alone, between two tables of the same name
InitWriter ==
    /\ op = "items"
    /\ ncpu \in {1, 4}
    /\ src = Handle("dev", <<"u">>, "sk")
    /\ tgt = Handle("prd", <<"u">>, "sk")
    /\ qsk = <<>>
    /\ SmallTables
    /\ NoIndex
    /\ InitRest

NextWriter ==
    \/ CopyCheck
    \/ QuerySource
    \/ QueryTarget
    \/ \E i \in 1..Len(tasks) : WriteFirst(i)
    \/ \E i \in 1..Len(tasks) : WriteRetry(i)
    \/ ItemsPutDispatch
    \/ ItemsReturn

\* a pool worker that holds a batch goes on with it
WorkerStep == \E i \in 1..Len(tasks) : WriteFirst(i) \/ WriteRetry(i)

\* the pool's workers run: a batch that can be started or retried is, in the
\* end; the service stops answering with unprocessed items after MaxRetries
\* answers (AllowedUnprocessed)
FairSpec == InitWriter /\ [][NextWriter]_vars /\ WF_vars(WorkerStep)

\* -------------------------------------------------------------------- claims

Pow2(n) == IF n <= 0 THEN 1 ELSE 2 * 2 ^ (n - 1)

\* a is a contiguous part of b, spelled out without the code's test
NameContains(a, b) ==
    \E pre \in 0..Len(b), post \in 0..Len(b) :
        /\ pre + Len(a) + post = Len(b)
        /\ \A j \in 1..Len(a) : b[pre + j] = a[j]

\* C1: in a full-table copy between distinct, copy-compatible tables the backup
\* of the target is requested before any item of the target is deleted, the
\* target is empty when the first Put is issued, and when the copy returns
\* the target holds exactly the items of the source.
C1_Step ==
    (op' = "copy" /\ Id(src') # Id(tgt')) =>
        /\ "delete" \in remote' => Id(tgt') \in backups'
        /\ ("put" \notin remote /\ "put" \in remote') => IsEmpty(db[Id(tgt)])
        /\ pc' = "done" => db'[Id(tgt')] = db0'[Id(src')]

C1_FullCopyOrder == [][C1_Step]_vars

\* C2: during a full-table copy (any pair of handles that passes the name
\* check, the same table twice included) or a restore between distinct tables,
\* started on a non-empty source, source and target are never both empty.
C2_NeverBothEmpty ==
    (/\ \/ op = "copy"
        \/ op = "restore" /\ Id(src) # Id(tgt)
     /\ ~IsEmpty(db0[Id(src)]))
    => ~(IsEmpty(db[Id(src)]) /\ IsEmpty(db[Id(tgt)]))

\* C3: when the write function has returned normally for a batch, the service
\* has accepted every request of the batch, none is still unprocessed, and
\* the target table shows them: the items of a Put batch are in the table, the
\* keys of a Delete batch are not (until the puts of the same copy start).
C3_WriterApplied ==
    \A i \in 1..Len(tasks) :
        LET t == tasks[i]
        IN  t.st = "done" =>
               /\ t.acked = Range(t.batch)
               /\ t.unproc = <<>>
               /\ t.kind = "PutRequest" =>
                     \A r \in Range(t.batch) : db[Id(tgt)][r[1]] = r[2]
               /\ (t.kind = "DeleteRequest" /\ pc = "deleting") =>
                     \A r \in Range(t.batch) : db[Id(tgt)][r[1]] = 0

\* a batch of two requests returned after a retry
C3_Witness ==
    \E i \in 1..Len(tasks) :
        tasks[i].st = "done" /\ Len(tasks[i].batch) = 2 /\ tasks[i].calls = 2

\* C4: in a selective copy no Put batch is handed to the pool before every
\* Delete batch has returned; a Delete batch and a Put batch are never in
\* flight together.
C4_DeleteBeforePut ==
    op = "items" =>
        \A i \in PutTasks, j \in DeleteTasks :
            /\ tasks[i].st # "wait" => tasks[j].st = "done"
            /\ ~(tasks[i].st \in {"queued", "retry"} /\ tasks[j].st \in {"queued", "retry"})

\* two Delete batches that both needed a retry have returned and a Put batch
\* is between two write calls
C4_Witness ==
    /\ op = "items"
    /\ Cardinality({j \in DeleteTasks : tasks[j].st = "done" /\ tasks[j].calls >= 2}) >= 2
    /\ \E i \in PutTasks : tasks[i].st = "retry"

\* C5: a copy between handles of which neither name is part of the other
\* raises before any remote call and leaves both tables as they were; when
\* one name is part of the other (either direction, or equal) the name check
\* does not raise.
C5_CompatCheck ==
    op \in {"copy", "items"} =>
        IF NameContains(src.table_name, tgt.table_name)
           \/ NameContains(tgt.table_name, src.table_name)
        THEN err # "CannotCopy" /\ (pc = "raised" => err # None)
        ELSE /\ pc \in {"start", "raised"}
             /\ pc = "raised" => err = "CannotCopy"
             /\ remote = {}
             /\ backups = {}
             /\ db = db0

\* the name check has raised
C5_Witness ==
    /\ op \in {"copy", "items"}
    /\ pc = "raised" /\ err = "CannotCopy"
    /\ ~IsEmpty(db[Id(src)]) /\ ~IsEmpty(db[Id(tgt)])

\* C6: when _truncate has returned the table holds no item, whatever pages the
\* scans returned.
C6_TruncateEmpties ==
    (pc = "segments" /\ seg = 0 /\ segReqs = <<>>) => IsEmpty(db[Id(tgt)])

\* C7: when a restore between distinct tables has returned, the restored table
\* holds exactly the items the backup table held and the backup table is gone.
C7_RestoreExact ==
    (op = "restore" /\ Id(src) # Id(tgt) /\ pc = "done") =>
        /\ db[Id(tgt)] = db0[Id(src)]
        /\ Id(src) \notin exists

\* C8: scanning a table no one writes to, the segment requests are
\* <<0, P>>, ..., <<P - 1, P>>, each once and in this order, and when the last
\* segment has been read the items collected are the items of the table, each
\* once.
C8_SegmentedScan ==
    (op \in {"copy", "restore"} /\ Id(src) # Id(tgt)) =>
        /\ \A i \in 1..Len(segReqs) : segReqs[i] = <<i - 1, ncpu>>
        /\ Cardinality({collected[i][1] : i \in 1..Len(collected)}) = Len(collected)
        /\ \A i \in 1..Len(collected) :
              db0[Id(src)][collected[i][1]] = collected[i][2]
        /\ pc \in {"delete_table", "done"} =>
              /\ Len(segReqs) = ncpu
              /\ Len(collected) = Cardinality(ItemsIn(db0[Id(src)]))
              /\ {collected[i][1] : i \in 1..Len(collected)} = ItemsIn(db0[Id(src)])

\* a scan over 16 segments has collected the two items of the table
C8_Witness ==
    /\ op = "copy" /\ pc = "done" /\ ncpu = 16 /\ Id(src) # Id(tgt)
    /\ Len(collected) = 2

\* C9: slicing a list of N items gives ceil(N / 25) batches, each of 1 to 25
\* items, all but the last of 25, whose concatenation is the list.
C9_Batcher ==
    (op = "batch" /\ pc = "done") =>
        LET N == Len(in_items)
            nb == Len(out_batches)
        IN  /\ nb = (N + BATCH_SIZE - 1) \div BATCH_SIZE
            /\ SumLen(out_batches) = N
            /\ \A j \in 1..nb : Len(out_batches[j]) \in 1..BATCH_SIZE
            /\ \A j \in 1..(nb - 1) : Len(out_batches[j]) = BATCH_SIZE
            /\ Flatten(out_batches) = in_items
            /\ N = 0 => out_batches = <<>>

\* a list of 51 items has been sliced into three batches
C9_Witness ==
    /\ op = "batch" /\ pc = "done"
    /\ Len(in_items) = 51 /\ Len(out_batches) = 3

\* C10: a batch whose write calls all had status 200 sleeps 3, 6, 12, ...
\* before its retries, has made one write call more than it was answered with
\* unprocessed items, has returned exactly when the last answer had none,
\* and each retry submits the unprocessed list of the call before it.
C10_Step ==
    \A i \in 1..Len(tasks') :
        LET t == tasks'[i]
        IN  /\ \A j \in 1..Len(t.sleeps) : t.sleeps[j] = InitialBackoff * Pow2(j - 1)
            /\ t.calls > 0 => /\ t.calls = Len(t.sleeps) + 1
                              /\ t.st = "done" => (t.unproc = <<>> /\ t.calls = t.throttled + 1)
                              /\ t.st = "retry" => (t.unproc # <<>> /\ t.calls = t.throttled)
            /\ t.calls = 0 => t.st \in {"wait", "queued", "raised", "skipped"}
            /\ (i <= Len(tasks) /\ tasks[i].st = "retry" /\ t.calls = tasks[i].calls + 1) =>
                  t.last = tasks[i].unproc

C10_BackoffSchedule == [][C10_Step]_vars

\* a batch has returned after two retries
C10_Witness ==
    \E i \in 1..Len(tasks) :
        tasks[i].st = "done" /\ tasks[i].sleeps = <<3, 6>> /\ tasks[i].calls = 3

\* the items of a list of logged responses, page after page
RECURSIVE PageItems(_)
PageItems(log) == IF log = <<>> THEN <<>> ELSE Head(log).Items \o PageItems(Tail(log))

\* C11: query_items asks for another page only after a response that carries
\* a continuation token and has ScannedCount > 0, it stops at the first
\* response without a token or with ScannedCount = 0, and what it returns is
\* the items of every response it got, in order, the last one included.
C11_QueryPagination ==
    op = "query" =>
        /\ \A i \in 1..Len(pages) :
              (i < Len(pages) \/ pc = "query_src") =>
                  (pages[i].LastEvaluatedKey /\ pages[i].ScannedCount > 0)
        /\ pc = "done" =>
              /\ pages # <<>>
              /\ LET last == pages[Len(pages)]
                 IN  ~last.LastEvaluatedKey \/ last.ScannedCount = 0
              /\ source_items = PageItems(pages)

\* a query of three responses has returned two pages of items: its last
\* response was empty and carried a continuation token, and items that match
\* were left unread
C11_Witness ==
    /\ op = "query" /\ pc = "done"
    /\ Len(pages) = 3
    /\ pages[3].LastEvaluatedKey /\ pages[3].ScannedCount = 0
    /\ pages[1].Items # <<>> /\ pages[2].Items # <<>>
    /\ Len(source_items) < Cardinality({k \in ItemsIn(db[Id(src)]) : Matches(k)})

\* C12: query_with_filter builds its key condition on the partition key name
\* of the named secondary index when index_name is given (and names an index
\* of the table), on the partition key name of the base table when it is not,
\* and in both cases returns the items instead of raising.
C12_FilterKey ==
    (/\ op = "filter" /\ pc # "start"
     /\ index_name # <<>> => GetSecondaryKey(gsi, index_name).raises = None) =>
        /\ pc = "done"
        /\ key_name = (IF index_name # <<>>
                       THEN GetSecondaryKey(gsi, index_name).pk_name
                       ELSE <<BasePkName>>)

\* C13: the full-table copy stops at the first step that fails.  After a
\* failed backup request nothing of T is deleted, S is not scanned and no
\* Put is issued; after a failed truncation (whose batch writer may still
\* send the deletes it holds) S is not scanned and no Put is issued; after a
\* failed segment scan or write batch no later segment is scanned or
\* written; the copy does not return normally after a failure, the exception
\* that reaches the caller is that failure, and the operation does nothing
\* after it raised.
C13_Step ==
    op = "copy" =>
        /\ failed' = "BackupError" =>
              /\ db' = db0' /\ remote' = {"backup"}
              /\ segReqs' = <<>> /\ collected' = <<>>
        /\ failed' = "TruncateError" =>
              /\ segReqs' = <<>> /\ collected' = <<>>
              /\ "put" \notin remote'
        /\ failed \in {"ScanError", "WriteError"} =>
              /\ segReqs' = segReqs /\ seg' = seg
              /\ Len(tasks') = Len(tasks)
        /\ failed' \in {"BackupError", "ScanError"} => pc' = "raised"
        /\ failed' = "TruncateError" =>
              \/ pc' = "raised"
              \/ pc' = "truncate" /\ tpc' = "exitflush"
        /\ failed' = "WriteError" => pc' \in {"writing", "raised"}
        /\ pc' = "raised" => (err' # None /\ err' = failed')
        /\ pc' = "done" => failed' = None
        /\ pc # "raised"

C13_AbortOnFailure == [][C13_Step]_vars

\* a copy over four segments has raised because a write batch of its second
\* segment failed, after the first segment was written
C13_Witness ==
    /\ op = "copy" /\ ncpu = 4
    /\ pc = "raised" /\ err = "WriteError" /\ failed = "WriteError"
    /\ seg = 1 /\ Len(segReqs) = 2
    /\ "put" \in remote

\* C14: restore_from_backup(R from B) issues delete-table on B only after
\* every segment of B was scanned and every Put batch was accepted by R (R
\* then holds every item the scans returned); when truncating R, a scan of B
\* or a write batch fails, delete-table is never issued and B still exists
\* with the contents it had when the restore began.
C14_Step ==
    op = "restore" =>
        /\ ("delete_table" \in remote' /\ "delete_table" \notin remote) =>
              /\ failed = None
              /\ seg = ncpu /\ Len(segReqs) = ncpu
              /\ \A s \in 0..(ncpu - 1) : \E i \in 1..Len(segReqs) : segReqs[i] = <<s, ncpu>>
              /\ tasks = <<>>
              /\ \A i \in 1..Len(collected) :
                    db[Id(tgt)][collected[i][1]] = collected[i][2]
        /\ failed' # None =>
              /\ "delete_table" \notin remote'
              /\ Id(src) \in exists'
              /\ db'[Id(src)] = db0'[Id(src)]

C14_DeleteBackupLast == [][C14_Step]_vars

\* C14 as amended: the same, with the contents of B unchanged after a failure
\* when B is a table other than R.
C14_AmendedStep ==
    op = "restore" =>
        /\ ("delete_table" \in remote' /\ "delete_table" \notin remote) =>
              /\ failed = None
              /\ seg = ncpu /\ Len(segReqs) = ncpu
              /\ \A s \in 0..(ncpu - 1) : \E i \in 1..Len(segReqs) : segReqs[i] = <<s, ncpu>>
              /\ tasks = <<>>
              /\ \A i \in 1..Len(collected) :
                    db[Id(tgt)][collected[i][1]] = collected[i][2]
        /\ failed' # None =>
              /\ "delete_table" \notin remote'
              /\ Id(src) \in exists'
              /\ Id(src) # Id(tgt) => db'[Id(src)] = db0'[Id(src)]

C14_DeleteBackupLastDistinct == [][C14_AmendedStep]_vars

\* a restore has raised on a write batch of its second segment: the backup
\* table is there with its items, and part of them is in R
C14_Witness ==
    /\ op = "restore" /\ Id(src) # Id(tgt)
    /\ pc = "raised" /\ failed = "WriteError" /\ seg = 1
    /\ Id(src) \in exists /\ ~IsEmpty(db[Id(src)])
    /\ "put" \in remote /\ "delete_table" \notin remote

\* C15: with P > 1 segments the scanner does not wait for the scan of one
\* segment before it dispatches the next, so that all P scans run
\* concurrently: when the items of a segment have been taken from its scan,
\* the scans of all P segments have been dispatched.
C15_ScansConcurrent ==
    (/\ op \in {"copy", "restore"} /\ ncpu > 1
     /\ pc = "writing" \/ seg > 0) =>
        Len(segReqs) = ncpu

\* C16: a batch whose write call, the first or a retry, is answered with a
\* status other than 200 raises at once, also when the response reports
\* unprocessed items, and after it the batch makes no write call and sleeps
\* no more.
C16_Step ==
    \A i \in 1..Len(tasks') :
        /\ tasks'[i].status \notin {0, 200} => tasks'[i].st = "raised"
        /\ (i <= Len(tasks) /\ tasks[i].st = "raised") => tasks'[i] = tasks[i]

C16_RaiseOnStatus == [][C16_Step]_vars

\* a retry was answered with status 500 and unprocessed items: the batch has
\* raised after two calls and one sleep
C16_Witness ==
    \E i \in 1..Len(tasks) :
        /\ tasks[i].st = "raised" /\ tasks[i].status = 500
        /\ tasks[i].unproc # <<>>
        /\ tasks[i].calls = 2 /\ tasks[i].sleeps = <<InitialBackoff>>

\* C17: every batch-write call the batches of a full-table copy, a selective
\* copy or a restore make, the first submission and every retry, carries at
\* least 1 and at most 25 requests.
C17_BatchSize ==
    \A i \in 1..Len(tasks) :
        /\ Len(tasks[i].batch) \in 1..BATCH_SIZE
        /\ tasks[i].calls > 0 => Len(tasks[i].last) \in 1..BATCH_SIZE

\* one batch was submitted with 25 requests, and the retry of another batch
\* carried a single request
C17_Witness ==
    \E i, j \in 1..Len(tasks) :
        /\ tasks[i].calls = 1 /\ Len(tasks[i].last) = BATCH_SIZE
        /\ tasks[j].calls = 2 /\ Len(tasks[j].last) = 1 /\ Len(tasks[j].batch) > 1

\* C18: for every item and every key schema, with a sort key or with a
\* partition key only, the Key of the DeleteRequest built for the item holds
\* exactly the attributes of the table's key schema, and building it does not
\* fail: no delete batch raises before its first write call.
C18_DeleteKey ==
    \A i \in DeleteTasks :
        /\ tasks[i].st = "raised" => tasks[i].calls > 0
        /\ tasks[i].st # "wait" /\ tasks[i].st # "queued" =>
              DeleteKeyNames(tgt) = KeySchemaNames(tgt)

\* C19: the writer has no retry ceiling.  A batch that is answered with status
\* 200 and unprocessed items goes on to another retry, however many it has
\* made; it returns only on a response with status 200 and no unprocessed
\* item and raises only on a response of another status; and, the service
\* answering in the end without unprocessed items or with another status,
\* every batch a worker was given has in the end returned or raised.
C19_Step ==
    \A i \in 1..Len(tasks) :
        (/\ i <= Len(tasks') /\ tasks[i].st \in {"queued", "retry"}
         /\ tasks'[i] # tasks[i] /\ tasks'[i].st # "skipped") =>
            LET t == tasks'[i]
            IN  /\ (t.status = 200 /\ t.unproc # <<>>) => t.st = "retry"
                /\ t.st = "done" => (t.status = 200 /\ t.unproc = <<>>)
                /\ t.st = "raised" => t.status # 200
                /\ t.st \in {"retry", "done", "raised"}

C19_WriterLiveness ==
    /\ [][C19_Step]_vars
    /\ \A i \in 1..MaxTasks :
          (i <= Len(tasks) /\ tasks[i].st \in {"queued", "retry"})
              ~> (i <= Len(tasks) /\ Finished(tasks[i]))

\* a batch that was answered MaxRetries times with unprocessed items is
\* retrying once more
C19_Witness ==
    \E i \in 1..Len(tasks) :
        /\ tasks[i].st = "retry" /\ tasks[i].throttled = MaxRetries
        /\ Len(tasks[i].sleeps) = MaxRetries - 1

\* the keys of content c that the query of the selective copy matches
MatchingIn(c) == {k \in ItemsIn(c) : Matches(k)}

\* C20: a selective copy whose source holds no item that matches the query,
\* whose names pass the check, whose index, if one is named, is found, whose
\* query the service accepts and whose write calls are all answered with
\* status 200, does not raise: it returns, having issued no Put, and the
\* target then holds no item that matches the query.
C20_EmptySourceClears ==
    (/\ op = "items" /\ pc \in {"done", "raised"}
     /\ CopyCompatible(src.table_name, tgt.table_name)
     /\ QueryKey(src).raises = None /\ QueryKey(tgt).raises = None
     /\ ~QueryRefused(src) /\ ~QueryRefused(tgt)
     /\ MatchingIn(db0[Id(src)]) = {}
     /\ \A i \in 1..Len(tasks) : tasks[i].status \in {0, 200}) =>
        /\ pc = "done"
        /\ "put" \notin remote
        /\ MatchingIn(db[Id(tgt)]) = {}

\* the version of the item of key k in the item list s, 0 when s has none
VersionIn(s, k) ==
    IF \E i \in 1..Len(s) : s[i][1] = k
    THEN s[CHOOSE i \in 1..Len(s) : s[i][1] = k][2]
    ELSE 0

\* the item list s has an item of the primary key item k has in the target
HasKeyOf(s, k) ==
    \E i \in 1..Len(s) :
        PrimaryKey(tgt.sk_name, s[i][1]) = PrimaryKey(tgt.sk_name, k)

\* C21: a selective copy on the base table leaves every item of the target
\* that does not match the query as it was, and when it has returned the
\* source table is as it was and the items of the target that match the query
\* are the items of the source that match it.
C21_FrameEffect ==
    (op = "items" /\ index_name = <<>>) =>
        /\ \A k \in 1..nkeys : ~Matches(k) => db[Id(tgt)][k] = db0[Id(tgt)][k]
        /\ pc = "done" =>
              /\ db[Id(src)] = db0[Id(src)]
              /\ \A k \in 1..nkeys : Matches(k) => db[Id(tgt)][k] = db0[Id(src)][k]

\* C21 as amended: the items of the target that do not match the query stay
\* as they were, a source that is another table than the target stays as it
\* was, and when the copy has returned the target holds, for a primary key
\* that matches the query, the item the source query returned for it, or else
\* nothing when the target query returned an item for it, or else what it
\* held before.
C21_FrameEffectOfReturned ==
    (op = "items" /\ index_name = <<>>) =>
        /\ \A k \in 1..nkeys : ~Matches(k) => db[Id(tgt)][k] = db0[Id(tgt)][k]
        /\ Id(src) # Id(tgt) => db[Id(src)] = db0[Id(src)]
        /\ pc = "done" =>
              \A k \in 1..nkeys :
                  Matches(k) =>
                      db[Id(tgt)][k] =
                          (IF HasKeyOf(source_items, k)
                           THEN VersionIn(source_items, k)
                           ELSE IF HasKeyOf(target_items, k) THEN 0
                           ELSE db0[Id(tgt)][k])

\* a selective copy by sort key prefix has returned: the matching item of the
\* target was replaced by the source's, and the target's item that does not
\* match is still there
C21_Witness ==
    /\ op = "items" /\ pc = "done" /\ Id(src) # Id(tgt) /\ index_name = <<>>
    /\ source_items # <<>> /\ target_items # <<>>
    /\ \E k \in 1..nkeys :
          Matches(k) /\ db0[Id(tgt)][k] # 0 /\ db[Id(tgt)][k] = db0[Id(src)][k]
          /\ db[Id(tgt)][k] # db0[Id(tgt)][k]
    /\ \E k \in 1..nkeys : ~Matches(k) /\ db[Id(tgt)][k] # 0

====
